---- MODULE Spec2Model ----
(***************************************************************************)
(* The device agent of Virtual-Fleet-IoT (device/src): the tokio::select!  *)
(* loop of main.rs with its five periodic actions, the SQLite telemetry    *)
(* queue of storage.rs, the OTA state machine of ota.rs and the persisted  *)
(* Config of config.rs.  Every handler is cut at its .await points (the    *)
(* backend calls of net.rs); everything between two awaits is one step.    *)
(*                                                                         *)
(* Option<T> is modelled as a set: None == {} and Some(x) == {x}.  A JSON  *)
(* object is a set of <<key, value>> pairs whose values are JSON literals  *)
(* written as text ("true", "false", "\"on\"").                            *)
(***************************************************************************)
EXTENDS Integers, Sequences, FiniteSets, TLC

\* ---------------------------------------------------------------- bounds
\* Rows ever inserted into the measurements table (samples and re-inserts),
\* and how many of them the sample tick may contribute.
MaxAppends == 4
MaxSamples == 3
\* The batch size the upload tick passes to get_and_clear_measurements
\* (100 in main.rs:117, scaled down so that a queue can exceed it).
UploadBatch == 2
\* Process starts (the first boot and the restarts after an OTA exit).
MaxBoots == 2
\* Seconds a timed run lasts.
MaxTime == 120

\* ------------------------------------------------------- value universes
None == {}
Some(x) == {x}

Actions == {"sample", "upload", "heartbeat", "ota", "shadow"}

\* env!("CARGO_PKG_VERSION") and one other firmware version of the backend.
BuildVersion == "0.1.0"
Versions == {"0.1.0", "0.2.0"}

\* get_env_var_u64 defaults of Config::from_env.
DefaultSampleSecs == 10
DefaultUploadSecs == 60
DefaultHeartbeatSecs == 30
OtaCheckSecs == 300
ShadowCheckSecs == 60

\* Interval values a backend response can carry (u64, 0 included).
BackendSecs == {0, 60}

\* Identities: the locally generated one of Config::from_env, and the n-th
\* identity the backend assigns (a fresh uuid and token per registration).
EnvDeviceId == "uuid-local"
RegisteredId(n) == "dev-" \o ToString(n)
RegisteredToken(n) == "tok-" \o ToString(n)

\* chaos_flags documents the backend can place under desired.chaos_flags.
ChaosDocs == { {}, {<<"random_error", "true">>} }

\* A desired-document entry for one interval key: absent, a JSON value that
\* is not a number, a number that is no u64, or a u64.
IntervalEntries ==
    {[kind |-> "absent", val |-> 0], [kind |-> "string", val |-> 0],
     [kind |-> "negative", val |-> 0]}
    \cup {[kind |-> "u64", val |-> n] : n \in BackendSecs}

Range(f) == {f[i] : i \in DOMAIN f}
Min(a, b) == IF a <= b THEN a ELSE b
Max(S) == CHOOSE x \in S : \A y \in S : y <= x

\* ----------------------------------------------------------------- state
VARIABLES
    focus,                  \* the part of the backend that is lively in this run
    registrations,          \* device ids the backend has assigned so far
    proc,                   \* "boot" | "running" | "exited" | "panicked" | "failed"
    boots,                  \* process starts so far
    pc,                     \* per action: "idle" or the await it is suspended at
    config,                 \* main.rs `config`
    configFile,             \* device_config.json
    ota_state,              \* main.rs `ota_state`
    otaFile,                \* ota_state.json
    firmware,               \* ./firmware: versions whose image file is complete
    table,                  \* the measurements table of device_storage.db
    appended,               \* rows inserted so far (append stamps)
    SEQUENCE_COUNTER,       \* simulate.rs
    sample_interval_secs,   \* live periods, main.rs:74-76
    upload_interval_secs,
    heartbeat_interval_secs,
    current_reported_state, \* main.rs:86
    measurements,           \* the batch held by the upload tick
    firmware_metadata,      \* the metadata held by check_for_update
    log,                    \* what the tick in progress (or the last one) did
    resp,                   \* the backend response that tick received
    pre,                    \* the table as that upload tick found it
    req,                    \* the request body in flight (heartbeat, patch shadow)
    now,                    \* seconds since the first start (timed runs)
    timers                  \* per action: the deadline of its timer's next tick

vars == <<focus, registrations, proc, boots, pc, config, configFile, ota_state, otaFile, firmware,
          table, appended, SEQUENCE_COUNTER, sample_interval_secs,
          upload_interval_secs, heartbeat_interval_secs,
          current_reported_state, measurements, firmware_metadata, log, resp,
          pre, req, now, timers>>

\* ------------------------------------------------------------ storage.rs
\* INTEGER PRIMARY KEY without AUTOINCREMENT: the new rowid is one more than
\* the largest rowid in the table, 1 in an empty table.
NextId(tbl) == IF tbl = {} THEN 1 ELSE Max({r.id : r \in tbl}) + 1

\* INSERT INTO measurements.  `stamp` is the position of this insert among
\* all inserts (a history value, it is not a column).
append_measurement(tbl, m, stamp) ==
    tbl \cup {[id |-> NextId(tbl), m |-> m, stamp |-> stamp]}

\* ORDER BY id DESC: the newest rows first.
RECURSIVE OrderByIdDesc(_)
OrderByIdDesc(rows) ==
    IF rows = {} THEN <<>>
    ELSE LET r == CHOOSE x \in rows : \A y \in rows : x.id >= y.id
         IN  <<r>> \o OrderByIdDesc(rows \ {r})

\* ORDER BY id
RECURSIVE OrderById(_)
OrderById(rows) ==
    IF rows = {} THEN <<>>
    ELSE LET r == CHOOSE x \in rows : \A y \in rows : x.id <= y.id
         IN  <<r>> \o OrderById(rows \ {r})

\* LIMIT ?
Limit(s, n) == SubSeq(s, 1, Min(n, Len(s)))

\* The ids of the rows that `SELECT ... ORDER BY id LIMIT ?` returns.
Selected(tbl, batch_size) ==
    LET rows == Limit(OrderById(tbl), batch_size)
    IN  {rows[i].id : i \in DOMAIN rows}

\* The transaction of get_and_clear_measurements when it commits: the
\* selected rows, and the table after the DELETEs.  `failed` is the set of
\* ids whose DELETE statement returned an error (logged, not propagated).
get_and_clear_measurements(tbl, batch_size, failed) ==
    LET selected == Limit(OrderById(tbl), batch_size)
        ids_to_delete == {selected[i].id : i \in DOMAIN selected}
    IN  [measurements |-> [i \in DOMAIN selected |-> selected[i].m],
         table |-> {r \in tbl : r.id \notin (ids_to_delete \ failed)}]

\* Each DELETE committed on its own, outside a transaction.
Autocommit(tbl, deleted) == {r \in tbl : r.id \notin deleted}

\* storage.rs:65 opens a transaction; when the process dies before
\* tx.commit() (storage.rs:107) SQLite discards the DELETEs in `deleted`
\* from its journal at the next open.
Rollback(tbl, deleted) == tbl

\* The re-insert loop left after its first measurement.
RECURSIVE ReinsertFirst(_, _, _, _, _)
ReinsertFirst(tbl, ms, i, stamp, failed) ==
    IF i > Min(1, Len(ms)) THEN [table |-> tbl, appended |-> stamp]
    ELSE IF i \in failed THEN ReinsertFirst(tbl, ms, i + 1, stamp, failed)
    ELSE ReinsertFirst(append_measurement(tbl, ms[i], stamp + 1), ms, i + 1,
                       stamp + 1, failed)

\* main.rs:124-128: append each drained measurement back, in batch order;
\* `failed` holds the batch positions whose INSERT returned an error.
RECURSIVE Reinsert(_, _, _, _, _)
Reinsert(tbl, ms, i, stamp, failed) ==
    IF i > Len(ms) THEN [table |-> tbl, appended |-> stamp]
    ELSE IF i \in failed THEN Reinsert(tbl, ms, i + 1, stamp, failed)
    ELSE Reinsert(append_measurement(tbl, ms[i], stamp + 1), ms, i + 1,
                  stamp + 1, failed)

\* ----------------------------------------------------------- simulate.rs
generate_measurement(counter, version) ==
    [sequence_number |-> counter, firmware_version |-> version]

\* ------------------------------------------------------------- config.rs
\* A file is absent, complete ("ok") or cut short by a failed write ("torn").
NoContent == {}
AbsentFile == [status |-> "absent", content |-> NoContent]
TornFile == [status |-> "torn", content |-> NoContent]
OkFile(c) == [status |-> "ok", content |-> Some(c)]
Content(f) == CHOOSE c \in f.content : TRUE

\* Config::from_env with nothing but the defaults set.
from_env ==
    [device_id |-> EnvDeviceId,
     auth_token |-> None,
     sample_interval_secs |-> DefaultSampleSecs,
     upload_interval_secs |-> DefaultUploadSecs,
     heartbeat_interval_secs |-> DefaultHeartbeatSecs,
     reported_shadow_state |-> None,
     chaos_flags |-> None]

\* The Config is written without its credential.
save_without_token(conf, file, outcome) ==
    CASE outcome = "ok" -> OkFile([conf EXCEPT !.auth_token = None])
      [] outcome = "error" -> file
      [] outcome = "torn" -> TornFile

\* Config::save_to_file.  outcome "ok": the file holds the serialised
\* Config; "error": create_dir_all, to_string_pretty or File::create failed
\* and the file is as it was; "torn": File::create truncated the file and
\* write_all failed.
save_to_file(conf, file, outcome) ==
    CASE outcome = "ok" -> OkFile(conf)
      [] outcome = "error" -> file
      [] outcome = "torn" -> TornFile

WriteOutcomes == {"ok", "error", "torn"}

\* A JSON object with the four keys the agent writes; an absent key is None.
EmptyDoc ==
    [sample_interval_secs |-> None, upload_interval_secs |-> None,
     heartbeat_interval_secs |-> None, chaos_flags |-> None]

\* ---------------------------------------------------------------- ota.rs
\* OtaState::load when the file does not exist.
DefaultOtaState == [current_version |-> BuildVersion, active_slot |-> "A"]

\* OtaState::save: fs::write creates or truncates, then writes.
save(state, file, outcome) ==
    CASE outcome = "ok" -> OkFile(state)
      [] outcome = "error" -> file
      [] outcome = "torn" -> TornFile

\* The version is updated and the slot is left as it was.
SwitchKeepsSlot(state, version) ==
    [current_version |-> version, active_slot |-> state.active_slot]

\* ota.rs:72-73, the "switch".
Switch(state, version) ==
    [current_version |-> version,
     active_slot |-> IF state.active_slot = "A" THEN "B" ELSE "A"]

\* The comparison dropped: every metadata answer is taken for an update.
UpdateAlways(state, version) == TRUE

\* ota.rs:51
UpdateAvailable(state, version) == version # state.current_version

\* --------------------------------------------------------------- main.rs
\* tokio::time::interval panics on a zero period.
IntervalPanics(secs) == secs = 0

\* tokio::time::interval(period) created at time `start`: the deadline of
\* its first tick.  The first tick completes immediately; the following
\* ones are one period apart.
interval(start) == start

\* Each tick spawned as a task of its own: a branch is taken whenever its
\* own handler is not running.
ReadySpawned(a) == proc = "running" /\ pc[a] = "idle"

\* The select! is polled only at the top of the loop: a branch is taken
\* when the process runs and no handler body is in progress.
Ready(a) == proc = "running" /\ \A b \in Actions : pc[b] = "idle"

\* main.rs:102-109 (and 146-153): chaos.get("random_error") is Bool(true).
RandomErrorEnabled(conf) ==
    \E chaos \in conf.chaos_flags : <<"random_error", "true">> \in chaos

NoPre == {}
NoResp == [kind |-> "none"]
NoReq == [kind |-> "none"]

\* ------------------------------------------------------ the environment
\* One run exercises one part of the backend in full and the others with a
\* narrow set of responses; every handler runs in every focus.
Focuses == {"queue", "ota", "shadow", "crash"}

\* Samples a process takes between two starts.
AppendLimit ==
    CASE focus = "queue" -> MaxSamples
      [] focus = "crash" -> 2
      [] OTHER -> 1

\* Rows the run inserts, re-inserts included.
InsertLimit ==
    IF focus = "queue" THEN MaxAppends ELSE 2

\* Sets of selected rows whose DELETE can fail in one drain.
DeleteFailures(ids) == IF focus = "queue" THEN SUBSET ids ELSE {{}}

\* Whether the firmware image can be written to ./firmware.
ImageWrites == IF focus \in {"ota", "crash"} THEN BOOLEAN ELSE {FALSE}

\* Interval values a heartbeat response carries for a live period `cur`.
HeartbeatSecs(cur) == IF focus = "shadow" THEN BackendSecs ELSE {cur}

\* desired_sample_interval_secs values of a heartbeat response: the backend
\* can also ask for the period the device was built with.
HeartbeatSampleSecs(cur) ==
    IF focus = "shadow" THEN BackendSecs \cup {DefaultSampleSecs} ELSE {cur}

\* desired_version values a heartbeat response carries (types.rs:26).
HeartbeatVersions ==
    IF focus = "ota" THEN {None} \cup {Some(v) : v \in Versions} ELSE {None}

\* Desired documents the shadow endpoint answers with.
AbsentEntry == [kind |-> "absent", val |-> 0]
DesiredDocs ==
    IF focus = "shadow"
    THEN [chaos_flags : {None} \cup {Some(c) : c \in ChaosDocs},
          sample_interval_secs : IntervalEntries,
          upload_interval_secs : IntervalEntries,
          heartbeat_interval_secs : IntervalEntries]
    ELSE [chaos_flags : {Some({<<"random_error", "true">>})},
          sample_interval_secs : {AbsentEntry},
          upload_interval_secs : {AbsentEntry},
          heartbeat_interval_secs : {AbsentEntry}]

\* Outcomes of a write of device_config.json in the shadow-check tick.
ConfigWriteOutcomes ==
    IF focus \in {"ota", "crash"} THEN WriteOutcomes ELSE {"ok"}

\* ----------------------------------------------------- startup, main.rs
\* A Config file present at the very first boot (a provisioned device), with
\* or without a credential.
ProvisionedConfig(token) ==
    [from_env EXCEPT !.device_id = "dev-0", !.auth_token = token]

Init ==
    /\ focus \in Focuses
    /\ registrations = 0
    /\ proc = "boot"
    /\ boots = 0
    /\ pc = [a \in Actions |-> "idle"]
    /\ config = from_env
    /\ configFile \in {AbsentFile, OkFile(ProvisionedConfig(Some("tok-0"))),
                       OkFile(ProvisionedConfig(None))}
    /\ ota_state = DefaultOtaState
    /\ otaFile = AbsentFile
    /\ firmware = {}
    /\ table = {}
    /\ appended = 0
    /\ SEQUENCE_COUNTER = 0
    /\ sample_interval_secs = DefaultSampleSecs
    /\ upload_interval_secs = DefaultUploadSecs
    /\ heartbeat_interval_secs = DefaultHeartbeatSecs
    /\ current_reported_state = EmptyDoc
    /\ measurements = <<>>
    /\ firmware_metadata = None
    /\ log = <<>>
    /\ resp = NoResp
    /\ pre = NoPre
    /\ req = NoReq
    /\ now = 0
    /\ timers = [a \in Actions |-> 0]

\* main.rs:31-41, the Config that load_from_file returned.
LoadedConfig(conf) ==
    [conf EXCEPT !.reported_shadow_state =
                     IF @ = None THEN Some(EmptyDoc) ELSE @]

\* main.rs:49-55, the Config built from the registration response.
RegisteredConfig(id, token) ==
    [from_env EXCEPT !.device_id = id, !.auth_token = Some(token),
                     !.reported_shadow_state = Some(EmptyDoc),
                     !.chaos_flags = Some({})]

\* main.rs:63-86 with `conf` the Config of this run: open the database, load
\* the OTA state, create the five timers, enter the loop.
EnterLoop(conf) ==
    /\ config' = conf
    /\ IF otaFile.status = "torn"
       THEN /\ proc' = "failed"
            /\ UNCHANGED <<ota_state, sample_interval_secs,
                           upload_interval_secs, heartbeat_interval_secs,
                           current_reported_state, timers>>
       ELSE /\ ota_state' = IF otaFile.status = "ok" THEN Content(otaFile)
                            ELSE DefaultOtaState
            /\ sample_interval_secs' = conf.sample_interval_secs
            /\ upload_interval_secs' = conf.upload_interval_secs
            /\ heartbeat_interval_secs' = conf.heartbeat_interval_secs
            /\ proc' = IF \/ IntervalPanics(conf.sample_interval_secs)
                          \/ IntervalPanics(conf.upload_interval_secs)
                          \/ IntervalPanics(conf.heartbeat_interval_secs)
                       THEN "panicked" ELSE "running"
            /\ timers' = [a \in Actions |-> interval(now)]
            /\ current_reported_state' =
                   IF conf.reported_shadow_state = None THEN EmptyDoc
                   ELSE CHOOSE d \in conf.reported_shadow_state : TRUE
    /\ SEQUENCE_COUNTER' = 0
    /\ pc' = [a \in Actions |-> "idle"]
    /\ measurements' = <<>>
    /\ firmware_metadata' = None
    /\ log' = <<>>
    /\ resp' = NoResp
    /\ pre' = NoPre
    /\ req' = NoReq

\* What no step of the running process changes.
Outside == UNCHANGED <<focus, registrations, boots, now, timers>>

\* The process starts with a readable Config file.
BootLoad ==
    /\ proc \in {"boot", "exited", "crashed"}
    /\ boots < MaxBoots
    /\ configFile.status = "ok"
    /\ boots' = boots + 1
    /\ EnterLoop(LoadedConfig(Content(configFile)))
    /\ UNCHANGED <<focus, now, registrations, configFile, otaFile, firmware,
                   table, appended>>

\* The process starts without one: registration, main.rs:42-60.
BootRegister ==
    /\ proc \in {"boot", "exited", "crashed"}
    /\ boots < MaxBoots
    /\ configFile.status # "ok"
    /\ boots' = boots + 1
    /\ registrations' = registrations + 1
    /\ \E outcome \in WriteOutcomes :
         LET conf == RegisteredConfig(RegisteredId(registrations'),
                                      RegisteredToken(registrations'))
         IN  /\ configFile' = save_to_file(conf, configFile, outcome)
             /\ IF outcome = "ok"
                THEN EnterLoop(conf)
                ELSE /\ proc' = "failed"
                     /\ UNCHANGED <<pc, config, ota_state, SEQUENCE_COUNTER,
                                    sample_interval_secs,
                                    upload_interval_secs,
                                    heartbeat_interval_secs,
                                    current_reported_state, measurements,
                                    firmware_metadata, log, resp, pre, req,
                                    timers>>
    /\ UNCHANGED <<focus, now, otaFile, firmware, table, appended>>

\* register_device returned an error: `?` ends main.
BootRegisterFails ==
    /\ proc \in {"boot", "exited", "crashed"}
    /\ boots < MaxBoots
    /\ configFile.status # "ok"
    /\ boots' = boots + 1
    /\ proc' = "failed"
    /\ UNCHANGED <<focus, now, timers, registrations, pc, config, configFile, ota_state,
                   otaFile, firmware, table, appended, SEQUENCE_COUNTER,
                   sample_interval_secs, upload_interval_secs,
                   heartbeat_interval_secs, current_reported_state,
                   measurements, firmware_metadata, log, resp, pre, req>>

\* ------------------------------------------- sample tick, main.rs:90-96
SampleTick ==
    /\ Ready("sample")
    /\ SEQUENCE_COUNTER < AppendLimit
    /\ appended < InsertLimit
    /\ LET m == generate_measurement(SEQUENCE_COUNTER,
                                     ota_state.current_version)
       IN  \E stored \in BOOLEAN :
             /\ table' = IF stored
                         THEN append_measurement(table, m, appended + 1)
                         ELSE table
             /\ appended' = IF stored THEN appended + 1 ELSE appended
             /\ log' = <<"sample", IF stored THEN "stored" ELSE "store_failed">>
    /\ SEQUENCE_COUNTER' = SEQUENCE_COUNTER + 1
    /\ resp' = NoResp
    /\ pc' = [pc EXCEPT !["sample"] = "done"]
    /\ Outside
    /\ UNCHANGED <<proc, config, configFile, ota_state, otaFile,
                   firmware, sample_interval_secs, upload_interval_secs,
                   heartbeat_interval_secs, current_reported_state,
                   measurements, firmware_metadata, pre, req>>

\* ------------------------------------------ upload tick, main.rs:97-140
UploadFrame ==
    /\ Outside
    /\ UNCHANGED <<proc, config, configFile, ota_state, otaFile, firmware,
                   SEQUENCE_COUNTER, sample_interval_secs,
                   upload_interval_secs, heartbeat_interval_secs,
                   current_reported_state, firmware_metadata>>

\* The chaos branch: `continue` before the queue is touched.
UploadChaosSkip ==
    /\ Ready("upload")
    /\ RandomErrorEnabled(config)
    /\ log' = <<"upload", "chaos_skip">>
    /\ resp' = NoResp
    /\ pc' = [pc EXCEPT !["upload"] = "done"]
    /\ UploadFrame
    /\ UNCHANGED <<table, appended, measurements, pre, req>>

\* get_and_clear_measurements returned Err: the transaction was not
\* committed and rolls back when `tx` is dropped.
UploadDrainFails ==
    /\ Ready("upload")
    /\ log' = <<"upload", "drain_failed">>
    /\ resp' = NoResp
    /\ pc' = [pc EXCEPT !["upload"] = "done"]
    /\ UploadFrame
    /\ UNCHANGED <<table, appended, measurements, pre, req>>

\* get_and_clear_measurements returned Ok: up to send_ingest's request.
UploadTick ==
    /\ Ready("upload")
    /\ \E failed \in DeleteFailures(Selected(table, UploadBatch)) :
         LET got == get_and_clear_measurements(table, UploadBatch, failed)
         IN  /\ table' = got.table
             /\ IF got.measurements = <<>>
                THEN /\ pc' = [pc EXCEPT !["upload"] = "done"]
                     /\ measurements' = <<>>
                     /\ pre' = NoPre
                     /\ req' = NoReq
                     /\ log' = <<"upload", "empty">>
                ELSE /\ pc' = [pc EXCEPT !["upload"] = "ingest"]
                     /\ measurements' = got.measurements
                     /\ pre' = table
                     /\ req' = NoReq
                     /\ log' = <<"upload",
                                 IF Cardinality(table \ got.table)
                                       = Len(got.measurements)
                                 THEN "drained" ELSE "delete_failed">>
                               \o (IF config.auth_token = None THEN <<>>
                                   ELSE <<"req:ingest">>)
    /\ resp' = NoResp
    /\ UploadFrame
    /\ UNCHANGED appended

\* send_ingest returned Ok; the batch is dropped at the end of the branch.
IngestOk ==
    /\ pc["upload"] = "ingest"
    /\ config.auth_token # None
    /\ pc' = [pc EXCEPT !["upload"] = "done"]
    /\ log' = Append(log, "ingested")
    /\ resp' = [kind |-> "ingest", ok |-> TRUE]
    /\ UploadFrame
    /\ UNCHANGED <<table, appended, pre, req, measurements>>

\* send_ingest returned Err (no token, network error or error status): every
\* drained measurement is appended back.
IngestFails ==
    /\ pc["upload"] = "ingest"
    /\ appended + Len(measurements) <= InsertLimit
    /\ \E failed \in SUBSET (1 .. Len(measurements)) :
         LET back == Reinsert(table, measurements, 1, appended, failed)
         IN  /\ table' = back.table
             /\ appended' = back.appended
             /\ log' = Append(log, IF failed = {} THEN "reinserted"
                                   ELSE "reinsert_failed")
    /\ pc' = [pc EXCEPT !["upload"] = "done"]
    /\ measurements' = <<>>
    /\ resp' = [kind |-> "ingest", ok |-> FALSE]
    /\ UploadFrame
    /\ UNCHANGED <<pre, req>>

\* ------------------------------------------------- interval reconfiguration
\* The comparison dropped: the timer is replaced whenever a value is carried.
SetPeriodAlways(cur, new) ==
    IF new # None
    THEN LET n == CHOOSE x \in new : TRUE
         IN  [secs |-> n, reset |-> TRUE, panic |-> IntervalPanics(n)]
    ELSE [secs |-> cur, reset |-> FALSE, panic |-> FALSE]

\* One `if new != cur { cur = new; timer = time::interval(cur) }` block;
\* `new` is None when the response carries no usable value for the key.
SetPeriod(cur, new) ==
    IF new # None /\ new # Some(cur)
    THEN LET n == CHOOSE x \in new : TRUE
         IN  [secs |-> n, reset |-> TRUE, panic |-> IntervalPanics(n)]
    ELSE [secs |-> cur, reset |-> FALSE, panic |-> FALSE]

\* The three blocks chained with `else if`: only the first differing value
\* is applied.
ApplyIntervalsElseIf(s, u, h, ds, du, dh) ==
    LET rs == SetPeriod(s, ds)
        ru == IF rs.reset THEN [secs |-> u, reset |-> FALSE, panic |-> FALSE]
              ELSE SetPeriod(u, du)
        rh == IF rs.reset \/ ru.reset
              THEN [secs |-> h, reset |-> FALSE, panic |-> FALSE]
              ELSE SetPeriod(h, dh)
    IN  [sample |-> rs.secs, upload |-> ru.secs, heartbeat |-> rh.secs,
         resets |-> (IF rs.reset THEN <<"reset:sample">> ELSE <<>>)
                    \o (IF ru.reset THEN <<"reset:upload">> ELSE <<>>)
                    \o (IF rh.reset THEN <<"reset:heartbeat">> ELSE <<>>),
         panic |-> rs.panic \/ ru.panic \/ rh.panic]

\* The three blocks in source order: sample, upload, heartbeat.  A panic in
\* one block ends the process before the next block runs.
ApplyIntervals(s, u, h, ds, du, dh) ==
    LET rs == SetPeriod(s, ds)
        ru == IF rs.panic THEN [secs |-> u, reset |-> FALSE, panic |-> FALSE]
              ELSE SetPeriod(u, du)
        rh == IF rs.panic \/ ru.panic
              THEN [secs |-> h, reset |-> FALSE, panic |-> FALSE]
              ELSE SetPeriod(h, dh)
    IN  [sample |-> rs.secs, upload |-> ru.secs, heartbeat |-> rh.secs,
         resets |-> (IF rs.reset THEN <<"reset:sample">> ELSE <<>>)
                    \o (IF ru.reset THEN <<"reset:upload">> ELSE <<>>)
                    \o (IF rh.reset THEN <<"reset:heartbeat">> ELSE <<>>),
         panic |-> rs.panic \/ ru.panic \/ rh.panic]

\* --------------------------------------- heartbeat tick, main.rs:141-186
\* The request body built from the persisted interval fields of Config.
HeartbeatFromConfig(conf, firmware_version, sample, upload, heartbeat) ==
    [kind |-> "heartbeat",
     device_id |-> conf.device_id,
     firmware_version |-> firmware_version,
     reported_sample_interval_secs |-> conf.sample_interval_secs,
     reported_upload_interval_secs |-> conf.upload_interval_secs,
     reported_heartbeat_interval_secs |-> conf.heartbeat_interval_secs]

\* net.rs:29-37, the body of the heartbeat request.
Heartbeat(conf, firmware_version, sample, upload, heartbeat) ==
    [kind |-> "heartbeat",
     device_id |-> conf.device_id,
     firmware_version |-> firmware_version,
     reported_sample_interval_secs |-> sample,
     reported_upload_interval_secs |-> upload,
     reported_heartbeat_interval_secs |-> heartbeat]

\* main.rs:257, the body of the patch-shadow request.
ReportedShadowState(state) == [kind |-> "patch_shadow", state |-> state]

\* The heartbeat handler adopting desired_version as the running version.
HeartbeatFrameAdoptsVersion ==
    /\ ota_state' = IF resp'.kind = "heartbeat" /\ resp'.ok
                       /\ resp'.desired_version # None
                    THEN [ota_state EXCEPT !.current_version =
                              CHOOSE v \in resp'.desired_version : TRUE]
                    ELSE ota_state
    /\ UNCHANGED <<focus, now, timers, registrations, pre, boots, config,
                   configFile, otaFile, firmware, table, appended,
                   SEQUENCE_COUNTER, current_reported_state, measurements,
                   firmware_metadata>>

HeartbeatFrame ==
    UNCHANGED <<focus, now, timers, registrations, pre, boots, config, configFile, ota_state, otaFile, firmware,
                table, appended, SEQUENCE_COUNTER, current_reported_state,
                measurements, firmware_metadata>>

HeartbeatChaosSkip ==
    /\ Ready("heartbeat")
    /\ RandomErrorEnabled(config)
    /\ log' = <<"heartbeat", "chaos_skip">>
    /\ resp' = NoResp
    /\ req' = NoReq
    /\ pc' = [pc EXCEPT !["heartbeat"] = "done"]
    /\ HeartbeatFrame
    /\ UNCHANGED <<proc, sample_interval_secs, upload_interval_secs,
                   heartbeat_interval_secs>>

\* Up to send_heartbeat's request (not sent without a token).
HeartbeatTick ==
    /\ Ready("heartbeat")
    /\ pc' = [pc EXCEPT !["heartbeat"] = "sent"]
    /\ log' = IF config.auth_token = None THEN <<"heartbeat">>
              ELSE <<"heartbeat", "req:heartbeat">>
    /\ req' = IF config.auth_token = None THEN NoReq
              ELSE Heartbeat(config, ota_state.current_version,
                             sample_interval_secs, upload_interval_secs,
                             heartbeat_interval_secs)
    /\ resp' = NoResp
    /\ HeartbeatFrame
    /\ UNCHANGED <<proc, sample_interval_secs, upload_interval_secs,
                   heartbeat_interval_secs>>

\* send_heartbeat returned Err: no token, network error, error status or a
\* body that is no DesiredState.
HeartbeatFails ==
    /\ pc["heartbeat"] = "sent"
    /\ pc' = [pc EXCEPT !["heartbeat"] = "done"]
    /\ log' = Append(log, "failed")
    /\ resp' = [kind |-> "heartbeat", ok |-> FALSE]
    /\ req' = NoReq
    /\ HeartbeatFrame
    /\ UNCHANGED <<proc, sample_interval_secs, upload_interval_secs,
                   heartbeat_interval_secs>>

\* send_heartbeat returned Ok(desired_state), main.rs:162-181.
HeartbeatResponse ==
    /\ pc["heartbeat"] = "sent"
    /\ config.auth_token # None
    /\ \E ds \in HeartbeatSampleSecs(sample_interval_secs),
          du \in HeartbeatSecs(upload_interval_secs),
          dh \in HeartbeatSecs(heartbeat_interval_secs),
          dv \in HeartbeatVersions :
         LET r == ApplyIntervals(sample_interval_secs, upload_interval_secs,
                                 heartbeat_interval_secs,
                                 Some(ds), Some(du), Some(dh))
         IN  /\ sample_interval_secs' = r.sample
             /\ upload_interval_secs' = r.upload
             /\ heartbeat_interval_secs' = r.heartbeat
             /\ proc' = IF r.panic THEN "panicked" ELSE proc
             /\ log' = IF r.panic THEN <<"heartbeat", "panic">>
                       ELSE log \o r.resets
             /\ resp' = IF r.panic THEN NoResp
                        ELSE [kind |-> "heartbeat", ok |-> TRUE,
                              desired_version |-> dv,
                              desired_sample_interval_secs |-> ds,
                              desired_upload_interval_secs |-> du,
                              desired_heartbeat_interval_secs |-> dh]
    /\ pc' = [pc EXCEPT !["heartbeat"] = "done"]
    /\ req' = NoReq
    /\ HeartbeatFrame

\* ----------------------------- ota-check tick, main.rs:187-194 and ota.rs
OtaFrame ==
    UNCHANGED <<focus, now, timers, registrations, pre, req, boots, config, configFile, table, appended, SEQUENCE_COUNTER,
                sample_interval_secs, upload_interval_secs,
                heartbeat_interval_secs, current_reported_state,
                measurements>>

\* Up to fetch_latest_firmware's request.
OtaTick ==
    /\ Ready("ota")
    /\ pc' = [pc EXCEPT !["ota"] = "metadata"]
    /\ log' = IF config.auth_token = None THEN <<"ota">>
              ELSE <<"ota", "req:metadata">>
    /\ resp' = NoResp
    /\ OtaFrame
    /\ UNCHANGED <<proc, ota_state, otaFile, firmware, firmware_metadata>>

\* fetch_latest_firmware returned Err (no token, network error, a body that
\* is no FirmwareMetadata), ota.rs:92-94.
OtaMetadataFails ==
    /\ pc["ota"] = "metadata"
    /\ pc' = [pc EXCEPT !["ota"] = "done"]
    /\ log' = Append(log, "metadata_failed")
    /\ resp' = [kind |-> "metadata", version |-> None]
    /\ OtaFrame
    /\ UNCHANGED <<proc, ota_state, otaFile, firmware, firmware_metadata>>

\* fetch_latest_firmware returned Ok(None): 204 or an empty body.
OtaNoContent ==
    /\ pc["ota"] = "metadata"
    /\ config.auth_token # None
    /\ pc' = [pc EXCEPT !["ota"] = "done"]
    /\ log' = Append(log, "no_content")
    /\ resp' = [kind |-> "metadata", version |-> None]
    /\ OtaFrame
    /\ UNCHANGED <<proc, ota_state, otaFile, firmware, firmware_metadata>>

\* fetch_latest_firmware returned Ok(Some(metadata)), ota.rs:50-61,85-87.
OtaMetadata ==
    /\ pc["ota"] = "metadata"
    /\ config.auth_token # None
    /\ \E version \in Versions :
         /\ resp' = [kind |-> "metadata", version |-> Some(version)]
         /\ IF UpdateAvailable(ota_state, version)
            THEN /\ pc' = [pc EXCEPT !["ota"] = "download"]
                 /\ firmware_metadata' = Some(version)
                 /\ log' = log \o <<"req:download">>
            ELSE /\ pc' = [pc EXCEPT !["ota"] = "done"]
                 /\ firmware_metadata' = None
                 /\ log' = log
    /\ OtaFrame
    /\ UNCHANGED <<proc, ota_state, otaFile, firmware>>

\* The download error propagated with `?`: check_for_update returns it
\* with the version already recorded.
OtaDownloadFailsRecorded ==
    /\ pc["ota"] = "download"
    /\ pc' = [pc EXCEPT !["ota"] = "done"]
    /\ firmware_metadata' = None
    /\ log' = Append(log, "download_failed")
    /\ ota_state' = [ota_state EXCEPT !.current_version =
                         CHOOSE v \in firmware_metadata : TRUE]
    /\ OtaFrame
    /\ UNCHANGED <<proc, otaFile, firmware, resp>>

\* download_firmware returned Err, ota.rs:81-83.
OtaDownloadFails ==
    /\ pc["ota"] = "download"
    /\ pc' = [pc EXCEPT !["ota"] = "done"]
    /\ firmware_metadata' = None
    /\ log' = Append(log, "download_failed")
    /\ OtaFrame
    /\ UNCHANGED <<proc, ota_state, otaFile, firmware, resp>>

\* process::exit placed before the save: the process ends with the state
\* file as it was.
ExitBeforeSave(state, file, version, outcome) ==
    [ota_state |-> Switch(state, version), otaFile |-> file,
     proc |-> "exited"]

\* ota.rs:72-79 once the image is on disk: mutate the state, save it, and
\* exit if (and only after) the save returned Ok.
SwitchAndExit(state, file, version, outcome) ==
    LET next == Switch(state, version)
    IN  [ota_state |-> next,
         otaFile |-> save(next, file, outcome),
         proc |-> IF outcome = "ok" THEN "exited" ELSE "running"]

\* download_firmware returned Ok, ota.rs:62-80.  stored = FALSE:
\* create_dir_all or the image write returned Err (`?`).
OtaDownloaded ==
    /\ pc["ota"] = "download"
    /\ \E stored \in ImageWrites, outcome \in WriteOutcomes :
         LET version == CHOOSE v \in firmware_metadata : TRUE
             r == SwitchAndExit(ota_state, otaFile, version, outcome)
         IN  IF stored
             THEN /\ firmware' = firmware \cup {version}
                  /\ ota_state' = r.ota_state
                  /\ otaFile' = r.otaFile
                  /\ proc' = r.proc
                  /\ log' = log \o <<"downloaded", "image_stored", "switched">>
                            \o (IF outcome = "ok" THEN <<"saved", "exit">>
                                ELSE <<"save_failed">>)
             ELSE /\ UNCHANGED <<firmware, ota_state, otaFile, proc>>
                  /\ log' = log \o <<"downloaded", "image_write_failed">>
    /\ pc' = [pc EXCEPT !["ota"] = "done"]
    /\ firmware_metadata' = None
    /\ OtaFrame
    /\ UNCHANGED <<resp>>

\* ------------------------------------- shadow-check tick, main.rs:195-270
\* The else branch dropped: flags stay when desired has no chaos_flags key.
ChaosSticky(desired) ==
    IF desired.chaos_flags # None
    THEN Some(CHOOSE c \in desired.chaos_flags : TRUE)
    ELSE config.chaos_flags

\* main.rs:203-209: Some(value) when desired has the key, None otherwise.
ChaosFromDesired(desired) ==
    IF desired.chaos_flags # None
    THEN Some(CHOOSE c \in desired.chaos_flags : TRUE)
    ELSE None

\* `if let Some(Value::Number(n)) = desired.get(key)` and `n.as_u64()`.
as_u64(entry) == IF entry.kind = "u64" THEN Some(entry.val) ELSE None

\* What the handler reads of a desired document.
Normalised(desired) ==
    [chaos_flags |-> desired.chaos_flags,
     sample_interval_secs |-> as_u64(desired.sample_interval_secs),
     upload_interval_secs |-> as_u64(desired.upload_interval_secs),
     heartbeat_interval_secs |-> as_u64(desired.heartbeat_interval_secs)]

\* reported.chaos_flags written only while a chaos configuration is active.
RefreshReportedWhenActive(reported, s, u, h, chaos) ==
    [reported EXCEPT
        !.sample_interval_secs = Some(s),
        !.upload_interval_secs = Some(u),
        !.heartbeat_interval_secs = Some(h),
        !.chaos_flags = IF chaos = None THEN @
                        ELSE Some(CHOOSE c \in chaos : TRUE)]

\* main.rs:243-247, the refreshed reported document.
RefreshReported(reported, s, u, h, chaos) ==
    [reported EXCEPT
        !.sample_interval_secs = Some(s),
        !.upload_interval_secs = Some(u),
        !.heartbeat_interval_secs = Some(h),
        !.chaos_flags = Some(IF chaos = None THEN {}
                             ELSE CHOOSE c \in chaos : TRUE)]

ShadowFrame ==
    UNCHANGED <<focus, now, timers, registrations, pre, boots, ota_state, otaFile, firmware, table, appended,
                SEQUENCE_COUNTER, measurements, firmware_metadata>>

\* Up to fetch_device_shadow's request.
ShadowTick ==
    /\ Ready("shadow")
    /\ pc' = [pc EXCEPT !["shadow"] = "fetch"]
    /\ log' = IF config.auth_token = None THEN <<"shadow">>
              ELSE <<"shadow", "req:get_shadow">>
    /\ resp' = NoResp
    /\ req' = NoReq
    /\ ShadowFrame
    /\ UNCHANGED <<proc, config, configFile, sample_interval_secs,
                   upload_interval_secs, heartbeat_interval_secs,
                   current_reported_state>>

\* fetch_device_shadow returned Err, main.rs:266-268.
ShadowFetchFails ==
    /\ pc["shadow"] = "fetch"
    /\ pc' = [pc EXCEPT !["shadow"] = "done"]
    /\ log' = Append(log, "fetch_failed")
    /\ resp' = [kind |-> "shadow", desired |-> None]
    /\ req' = NoReq
    /\ ShadowFrame
    /\ UNCHANGED <<proc, config, configFile, sample_interval_secs,
                   upload_interval_secs, heartbeat_interval_secs,
                   current_reported_state>>

\* The shadow has no desired document, main.rs:262-264.
ShadowNoDesired ==
    /\ pc["shadow"] = "fetch"
    /\ config.auth_token # None
    /\ pc' = [pc EXCEPT !["shadow"] = "done"]
    /\ log' = Append(log, "no_desired")
    /\ resp' = [kind |-> "shadow", desired |-> None]
    /\ req' = NoReq
    /\ ShadowFrame
    /\ UNCHANGED <<proc, config, configFile, sample_interval_secs,
                   upload_interval_secs, heartbeat_interval_secs,
                   current_reported_state>>

\* The shadow has a desired document, main.rs:199-257 up to the request of
\* report_device_shadow.
ShadowDesired ==
    /\ pc["shadow"] = "fetch"
    /\ config.auth_token # None
    /\ \E desired \in DesiredDocs, outcome \in ConfigWriteOutcomes :
         LET chaos == ChaosFromDesired(desired)
             r == ApplyIntervals(sample_interval_secs, upload_interval_secs,
                                 heartbeat_interval_secs,
                                 as_u64(desired.sample_interval_secs),
                                 as_u64(desired.upload_interval_secs),
                                 as_u64(desired.heartbeat_interval_secs))
             reported == RefreshReported(current_reported_state, r.sample,
                                         r.upload, r.heartbeat, chaos)
         IN  /\ resp' = IF r.panic THEN NoResp
                        ELSE [kind |-> "shadow",
                              desired |-> Some(Normalised(desired))]
             /\ sample_interval_secs' = r.sample
             /\ upload_interval_secs' = r.upload
             /\ heartbeat_interval_secs' = r.heartbeat
             /\ IF r.panic
                THEN /\ proc' = "panicked"
                     /\ config' = [config EXCEPT !.chaos_flags = chaos]
                     /\ pc' = [pc EXCEPT !["shadow"] = "done"]
                     /\ log' = <<"shadow", "panic">>
                     /\ req' = NoReq
                     /\ UNCHANGED <<current_reported_state, configFile>>
                ELSE /\ proc' = proc
                     /\ current_reported_state' = reported
                     /\ config' = [config EXCEPT
                                      !.chaos_flags = chaos,
                                      !.reported_shadow_state = Some(reported)]
                     /\ configFile' = save_to_file(config', configFile, outcome)
                     /\ pc' = [pc EXCEPT !["shadow"] = "report"]
                     /\ req' = ReportedShadowState(current_reported_state')
                     /\ log' = log
                               \o (IF chaos = config.chaos_flags
                                   THEN <<"chaos_same">>
                                   ELSE <<"chaos_changed">>)
                               \o r.resets
                               \o <<"reported", "save:" \o outcome,
                                    "req:patch_shadow">>
    /\ ShadowFrame

\* report_device_shadow returned, main.rs:257-261.
ShadowReported ==
    /\ pc["shadow"] = "report"
    /\ pc' = [pc EXCEPT !["shadow"] = "done"]
    /\ \E ok \in BOOLEAN :
         log' = Append(log, IF ok THEN "patched" ELSE "patch_failed")
    /\ req' = NoReq
    /\ ShadowFrame
    /\ UNCHANGED <<proc, config, configFile, sample_interval_secs,
                   upload_interval_secs, heartbeat_interval_secs,
                   current_reported_state, resp>>

\* ------------------------------------------------- back to the select!
\* The branch body has ended and the loop iterates, main.rs:88-89.
Continue ==
    /\ proc = "running"
    /\ \E a \in Actions :
         /\ pc[a] = "done"
         /\ pc' = [pc EXCEPT ![a] = "idle"]
    /\ log' = <<>>
    /\ resp' = NoResp
    /\ pre' = NoPre
    /\ req' = NoReq
    /\ measurements' = <<>>
    /\ UNCHANGED <<focus, now, timers, registrations, boots, proc, config, configFile,
                   ota_state, otaFile, firmware, table, appended,
                   SEQUENCE_COUNTER, sample_interval_secs,
                   upload_interval_secs, heartbeat_interval_secs,
                   current_reported_state, firmware_metadata>>

\* ----------------------------------------------------------- crashes
\* The process is killed (power loss, SIGKILL).  Memory is gone: the
\* handler positions and the drained batch are reset; the variables of the
\* last run stay readable until the next start overwrites them.
CrashFrame ==
    /\ proc = "running"
    /\ boots < MaxBoots
    /\ proc' = "crashed"
    /\ pc' = [a \in Actions |-> "idle"]
    /\ measurements' = <<>>
    /\ firmware_metadata' = None
    /\ UNCHANGED <<focus, now, timers, registrations, boots, SEQUENCE_COUNTER,
                   sample_interval_secs, upload_interval_secs,
                   heartbeat_interval_secs, current_reported_state,
                   appended>>

\* Killed between two statements, anywhere in the loop; `log` keeps where.
Crash ==
    /\ CrashFrame
    /\ log' = <<"crash", IF pc["upload"] = "ingest" THEN "window"
                         ELSE "elsewhere">>
    /\ pre' = NoPre
    /\ req' = NoReq
    /\ resp' = NoResp
    /\ UNCHANGED <<config, configFile, ota_state, otaFile, firmware, table>>

\* Killed inside get_and_clear_measurements, storage.rs:65-106, with the
\* DELETEs of `deleted` executed and the transaction not committed.
DrainCrash ==
    /\ Ready("upload")
    /\ CrashFrame
    /\ \E deleted \in SUBSET Selected(table, UploadBatch) :
         /\ table' = Rollback(table, deleted)
         /\ resp' = [kind |-> "drain_crash", deleted |-> deleted]
    /\ pre' = table
    /\ req' = NoReq
    /\ log' = <<"crash", "drain">>
    /\ UNCHANGED <<config, configFile, ota_state, otaFile, firmware>>

\* Killed inside config.save_to_file of the shadow-check tick, main.rs:252:
\* before File::create ("error": the file as it was), after it truncated
\* the file ("torn"), or after write_all ("ok").
ShadowSaveCrash ==
    /\ pc["shadow"] = "fetch"
    /\ config.auth_token # None
    /\ CrashFrame
    /\ \E outcome \in WriteOutcomes :
         /\ configFile' = save_to_file(config, configFile, outcome)
         /\ log' = <<"crash", "config_save:" \o outcome>>
    /\ pre' = NoPre
    /\ req' = NoReq
    /\ resp' = NoResp
    /\ UNCHANGED <<config, ota_state, otaFile, firmware, table>>

\* Killed inside the switch, ota.rs:72-79, the image being on disk: before
\* fs::write of the state file ("error"), after it truncated the file
\* ("torn"), or after the write and before process::exit ("ok").
OtaSwitchCrash ==
    /\ pc["ota"] = "download"
    /\ CrashFrame
    /\ \E version \in firmware_metadata, outcome \in WriteOutcomes :
         /\ firmware' = firmware \cup {version}
         /\ ota_state' = Switch(ota_state, version)
         /\ otaFile' = save(ota_state', otaFile, outcome)
         /\ log' = <<"crash", "ota_save:" \o outcome>>
    /\ pre' = NoPre
    /\ req' = NoReq
    /\ resp' = NoResp
    /\ UNCHANGED <<config, configFile, table>>

\* ---------------------------------------------------------- specification
Next ==
    \/ BootLoad
    \/ BootRegister
    \/ BootRegisterFails
    \/ SampleTick
    \/ UploadChaosSkip
    \/ UploadDrainFails
    \/ UploadTick
    \/ IngestOk
    \/ IngestFails
    \/ HeartbeatChaosSkip
    \/ HeartbeatTick
    \/ HeartbeatFails
    \/ HeartbeatResponse
    \/ OtaTick
    \/ OtaMetadataFails
    \/ OtaNoContent
    \/ OtaMetadata
    \/ OtaDownloadFails
    \/ OtaDownloaded
    \/ ShadowTick
    \/ ShadowFetchFails
    \/ ShadowNoDesired
    \/ ShadowDesired
    \/ ShadowReported
    \/ Continue

Spec == Init /\ [][Next]_vars

\* The same program with one focus each.
InitQueue == Init /\ focus = "queue"
InitOta == Init /\ focus = "ota"
InitShadow == Init /\ focus = "shadow"
SpecQueue == InitQueue /\ [][Next]_vars
SpecOta == InitOta /\ [][Next]_vars
SpecShadow == InitShadow /\ [][Next]_vars

\* The loop under its scheduling: the upload timer fires again and again,
\* every await returns, the loop iterates, and an ingest call that is made
\* again and again is eventually accepted.  The device holds a credential
\* and is not killed.
InitLive ==
    /\ InitQueue
    /\ configFile # OkFile(ProvisionedConfig(None))
Fairness ==
    /\ SF_vars(UploadTick)
    /\ SF_vars(IngestOk)
    /\ WF_vars(IngestOk \/ IngestFails)
    /\ WF_vars(HeartbeatFails \/ HeartbeatResponse)
    /\ WF_vars(OtaMetadataFails \/ OtaNoContent \/ OtaMetadata)
    /\ WF_vars(OtaDownloadFails \/ OtaDownloaded)
    /\ WF_vars(ShadowFetchFails \/ ShadowNoDesired \/ ShadowDesired)
    /\ WF_vars(ShadowReported)
    /\ WF_vars(Continue)
    /\ WF_vars(BootLoad)
SpecLive == InitLive /\ [][Next]_vars /\ Fairness

\* ------------------------------------------------------------ timed runs
\* The loop with its clock: a branch of the select! is taken when its timer
\* is due, a tick moves the deadline one period on (tokio::time::Interval),
\* and time passes only while no timer is due.  The handler bodies are
\* reduced to what they do to the periods and the timers.
Period(a) ==
    CASE a = "sample" -> sample_interval_secs
      [] a = "upload" -> upload_interval_secs
      [] a = "heartbeat" -> heartbeat_interval_secs
      [] a = "ota" -> OtaCheckSecs
      [] a = "shadow" -> ShadowCheckSecs

Due(a) == proc = "running" /\ timers[a] <= now

TimedFrame ==
    UNCHANGED <<focus, registrations, boots, pc, config, configFile,
                ota_state, otaFile, firmware, table, appended,
                SEQUENCE_COUNTER, current_reported_state, measurements,
                firmware_metadata, log, resp, pre, req>>

\* The select! sleeps until the earliest deadline.
Elapse ==
    /\ proc = "running"
    /\ \A a \in Actions : timers[a] > now
    /\ \E a \in Actions :
         /\ \A b \in Actions : timers[a] <= timers[b]
         /\ timers[a] <= MaxTime
         /\ now' = timers[a]
    /\ TimedFrame
    /\ UNCHANGED <<proc, timers, sample_interval_secs, upload_interval_secs,
                   heartbeat_interval_secs>>

\* The select! takes the branch of timer `a`, whose handler touches no
\* period.  Without `biased;` the macro polls the branches from a random
\* start, so every due branch can be the one taken.
TimedTickOf(a) ==
    /\ Due(a)
    /\ timers' = [timers EXCEPT ![a] = @ + Period(a)]
    /\ TimedFrame
    /\ UNCHANGED <<proc, now, sample_interval_secs, upload_interval_secs,
                   heartbeat_interval_secs>>

\* A sample, upload or OTA-check tick: no period is touched.
TimedTick == \E a \in {"sample", "upload", "ota"} : TimedTickOf(a)

\* The tick of action `a` at `now` whose handler applies the desired
\* values ds, du, dh: main.rs:165-179 and 214-240.
Reconfigure(a, ds, du, dh) ==
    LET r == ApplyIntervals(sample_interval_secs, upload_interval_secs,
                            heartbeat_interval_secs, ds, du, dh)
    IN  /\ sample_interval_secs' = r.sample
        /\ upload_interval_secs' = r.upload
        /\ heartbeat_interval_secs' = r.heartbeat
        /\ proc' = IF r.panic THEN "panicked" ELSE proc
        /\ timers' = [b \in Actions |->
                        IF ("reset:" \o b) \in Range(r.resets)
                        THEN interval(now)
                        ELSE IF b = a THEN timers[b] + Period(b)
                        ELSE timers[b]]

\* A heartbeat tick whose response carries the three desired intervals.
TimedHeartbeat ==
    /\ Due("heartbeat")
    /\ \E ds \in HeartbeatSampleSecs(sample_interval_secs),
          du \in HeartbeatSecs(upload_interval_secs),
          dh \in HeartbeatSecs(heartbeat_interval_secs) :
         Reconfigure("heartbeat", Some(ds), Some(du), Some(dh))
    /\ TimedFrame
    /\ UNCHANGED now

\* A shadow-check tick whose desired document is `desired`.
TimedShadow ==
    /\ Due("shadow")
    /\ \E desired \in DesiredDocs :
         Reconfigure("shadow", as_u64(desired.sample_interval_secs),
                     as_u64(desired.upload_interval_secs),
                     as_u64(desired.heartbeat_interval_secs))
    /\ TimedFrame
    /\ UNCHANGED now

NextTimer ==
    \/ BootLoad
    \/ BootRegister
    \/ BootRegisterFails
    \/ Elapse
    \/ TimedTick
    \/ TimedHeartbeat
    \/ TimedShadow
SpecTimer == InitShadow /\ [][NextTimer]_vars

\* The program in an environment that also kills the process.
NextCrash ==
    \/ Next
    \/ Crash
    \/ DrainCrash
    \/ ShadowSaveCrash
    \/ OtaSwitchCrash
InitCrash == Init /\ focus = "crash"
SpecCrash == InitCrash /\ [][NextCrash]_vars

\* ================================================================ claims
\* Rows in the order they were inserted (by insert stamp).
RECURSIVE InAppendOrder(_)
InAppendOrder(rows) ==
    IF rows = {} THEN <<>>
    ELSE LET r == CHOOSE x \in rows : \A y \in rows : x.stamp <= y.stamp
         IN  <<r>> \o InAppendOrder(rows \ {r})

\* `got` is what a drain of at most n rows without a storage failure must
\* give on table `tbl`: the min(|tbl|, n) oldest measurements in append
\* order, and exactly the other rows left in the table.
IsFifoDrain(tbl, n, got) ==
    LET order == InAppendOrder(tbl)
        k == Min(Cardinality(tbl), n)
    IN  /\ Len(got.measurements) = k
        /\ \A i \in 1 .. k : got.measurements[i] = order[i].m
        /\ got.table = {order[i] : i \in (k + 1) .. Len(order)}
        /\ (Cardinality(tbl) <= n => got.table = {})

BatchSizes == 0 .. (MaxAppends + 1)

\* C1 (FIFO drain): get_and_clear_measurements without a storage failure
\* returns the min(queue length, max_n) oldest records in the order they
\* were appended and leaves exactly the remaining records; a queue of at
\* most max_n records is empty afterwards.  Stated of the drain the upload
\* tick has just done, and of a drain of every batch size on every table
\* the agent reaches.
C1_FifoDrain ==
    /\ (pc["upload"] = "ingest" /\ log[2] = "drained"
          => IsFifoDrain(pre, UploadBatch,
                         [measurements |-> measurements, table |-> table]))
    /\ \A n \in BatchSizes :
         IsFifoDrain(table, n, get_and_clear_measurements(table, n, {}))

\* A drain has taken two of three queued records, and one has emptied a
\* queue no longer than the batch.
C1_Witness ==
    /\ pc["upload"] = "ingest"
    /\ log[2] = "drained"
    /\ Cardinality(pre) = UploadBatch + 1
    /\ Len(measurements) = UploadBatch
    /\ Cardinality(table) = 1

\* The multiset of the measurements held in a table.
MeasurementBag(tbl) ==
    [m \in {r.m : r \in tbl} |-> Cardinality({r \in tbl : r.m = m})]

\* An upload tick has ended whose ingest call failed and whose re-inserts
\* all succeeded.
UploadFailedAndReinserted ==
    /\ pc["upload"] = "done"
    /\ resp = [kind |-> "ingest", ok |-> FALSE]
    /\ log[Len(log)] = "reinserted"

\* C2 (re-enqueue round trip): an upload tick whose ingest call fails and
\* whose re-appends succeed leaves the multiset of stored measurements as it
\* was before the tick, and the re-appended records sit behind every record
\* that was not drained, so the next drain returns those first.
C2_ReenqueueRoundTrip ==
    UploadFailedAndReinserted =>
        LET kept == pre \cap table
            k == Cardinality(kept)
            next == get_and_clear_measurements(table, k, {})
        IN  /\ MeasurementBag(table) = MeasurementBag(pre)
            /\ \A r \in kept, q \in table \ pre : r.id < q.id
            /\ \A i \in 1 .. k : next.measurements[i] = InAppendOrder(kept)[i].m

\* C3 (OTA no-op): when check_for_update fetches metadata whose version
\* equals OtaState.current_version, the in-memory OtaState, the OTA state
\* file and the firmware storage stay as they are, no download is attempted
\* and the process keeps running.
C3_OtaNoOp ==
    [][(/\ pc["ota"] = "metadata"
        /\ resp'.kind = "metadata"
        /\ resp'.version = Some(ota_state.current_version))
       => /\ ota_state' = ota_state
          /\ otaFile' = otaFile
          /\ firmware' = firmware
          /\ pc'["ota"] = "done"
          /\ "req:download" \notin Range(log')
          /\ proc' = "running"]_vars

\* An OTA check has ended on metadata that names the running version.
C3_Witness ==
    /\ pc["ota"] = "done"
    /\ resp.kind = "metadata"
    /\ resp.version = Some(ota_state.current_version)
    /\ "req:download" \notin Range(log)

\* The step of check_for_update that receives the downloaded image.
Downloaded == pc["ota"] = "download" /\ "downloaded" \in Range(log')

\* The switch: the slot toggles, the version is the metadata version, the
\* state file holds the new in-memory state, the process has terminated.
Switched ==
    /\ (ota_state.active_slot = "A" => ota_state'.active_slot = "B")
    /\ (ota_state.active_slot = "B" => ota_state'.active_slot = "A")
    /\ Some(ota_state'.current_version) = firmware_metadata
    /\ otaFile' = OkFile(ota_state')
    /\ proc' = "exited"

\* C4 as stated (OTA switch): whenever the metadata version differs and the
\* download and verification succeed, the switch happens.
C4_SwitchWheneverDownloaded == [][Downloaded => Switched]_vars

\* C4 as amended: whenever the metadata version differs and the download,
\* the write of the firmware image and the write of the OTA state file all
\* succeed, active_slot toggles, current_version becomes the metadata
\* version, the persisted OTA state equals the new in-memory state and the
\* process terminates.
C4_OtaSwitch ==
    [][(Downloaded /\ "image_stored" \in Range(log') /\ "saved" \in Range(log'))
       => Switched]_vars

\* The process has exited on a second switch, back to slot A.
C4_Witness ==
    /\ proc = "exited"
    /\ "saved" \in Range(log)
    /\ ota_state = [current_version |-> "0.1.0", active_slot |-> "A"]
    /\ otaFile = OkFile(ota_state)
    /\ boots = 2

\* C5 (persist before exit): the process terminates only with the state
\* file holding the version and slot switched to, so the OtaState loaded at
\* the next boot has that version, and metadata naming it is no update.
C5_PersistBeforeExit ==
    [][/\ (proc' = "exited" /\ proc = "running")
          => /\ otaFile'.status = "ok"
             /\ Some(Content(otaFile').current_version) = firmware_metadata
             /\ Content(otaFile').active_slot # ota_state.active_slot
             /\ Content(otaFile') = ota_state'
       /\ (proc = "exited" /\ proc' = "running")
          => /\ ota_state' = ota_state
             /\ ~UpdateAvailable(ota_state', ota_state.current_version)]_vars

\* After a switch and a restart, a check against the same metadata ended
\* as a no-op.
C5_Witness ==
    /\ boots = 2
    /\ proc = "running"
    /\ ota_state = [current_version |-> "0.2.0", active_slot |-> "B"]
    /\ pc["ota"] = "done"
    /\ resp.kind = "metadata"
    /\ resp.version = Some("0.2.0")
    /\ firmware = {"0.2.0"}

\* A shadow-check tick has processed a desired document.
HasDesired ==
    /\ pc["shadow"] \in {"report", "done"}
    /\ resp.kind = "shadow"
    /\ resp.desired # None
DesiredOfTick == CHOOSE d \in resp.desired : TRUE

\* C6 (chaos-flag clearing): after a shadow-check tick whose desired
\* document has no chaos_flags key the active chaos configuration is empty,
\* whatever it was before; when the key is present the active configuration
\* is its value.
C6_ChaosFlagClearing ==
    HasDesired =>
        /\ (DesiredOfTick.chaos_flags = None => config.chaos_flags = None)
        /\ \A c \in DesiredOfTick.chaos_flags : config.chaos_flags = Some(c)

\* A tick has cleared a configuration that was not empty.
C6_Witness ==
    /\ HasDesired
    /\ DesiredOfTick.chaos_flags = None
    /\ "chaos_changed" \in Range(log)
    /\ config.chaos_flags = None

\* The step of the shadow-check tick that processes a desired document
\* without a panic.
DesiredStep ==
    /\ pc["shadow"] = "fetch"
    /\ pc'["shadow"] = "report"
    /\ resp'.desired # None
    /\ proc' = "running"

\* What that step does for one interval: carried value, live period before
\* and after, and the log entry of the timer replacement.
Idempotent(carried, before, after, reset) ==
    /\ carried = Some(before) => (after = before /\ reset \notin Range(log'))
    /\ \A v \in carried : after = v

\* C7 (interval reconfiguration idempotence): a shadow-check tick whose
\* desired value for an interval equals the live period leaves the timer and
\* the period alone, yet rewrites the reported document; as a tick leaves
\* the live period at the value it carried and nothing between two ticks
\* changes it, the same value in two consecutive ticks resets the timer at
\* most once.
C7_IntervalIdempotence ==
    [][/\ DesiredStep =>
            LET d == CHOOSE x \in resp'.desired : TRUE
            IN  /\ Idempotent(d.sample_interval_secs, sample_interval_secs,
                              sample_interval_secs', "reset:sample")
                /\ Idempotent(d.upload_interval_secs, upload_interval_secs,
                              upload_interval_secs', "reset:upload")
                /\ Idempotent(d.heartbeat_interval_secs,
                              heartbeat_interval_secs,
                              heartbeat_interval_secs', "reset:heartbeat")
                /\ "reported" \in Range(log')
                /\ current_reported_state' =
                       [sample_interval_secs |-> Some(sample_interval_secs'),
                        upload_interval_secs |-> Some(upload_interval_secs'),
                        heartbeat_interval_secs |->
                            Some(heartbeat_interval_secs'),
                        chaos_flags |->
                            IF config'.chaos_flags = None THEN Some({})
                            ELSE config'.chaos_flags]
       /\ (proc = "running" /\ proc' = "running"
           /\ pc["shadow"] \in {"report", "done", "idle"}
           /\ pc'["shadow"] \in {"done", "idle", "fetch"}
           /\ \A a \in Actions \ {"shadow"} : pc[a] = "idle" /\ pc'[a] = "idle")
          => UNCHANGED <<sample_interval_secs, upload_interval_secs,
                         heartbeat_interval_secs>>]_vars

\* A tick carried the value the sample period already had (a value an
\* earlier response had set), replaced no timer and rewrote the reported
\* document.
C7_Witness ==
    /\ HasDesired
    /\ DesiredOfTick.sample_interval_secs = Some(60)
    /\ sample_interval_secs = 60
    /\ "reset:sample" \notin Range(log)
    /\ "reported" \in Range(log)
    /\ current_reported_state.sample_interval_secs = Some(60)

Identity(conf) == <<conf.device_id, conf.auth_token>>

InProgress == {a \in Actions : pc[a] # "idle"}

\* C9 (single dispatch): at most one periodic action is in progress at any
\* moment; while it is, no other action starts, and it leaves its handler
\* only by running to its end.
C9_SingleDispatch ==
    [][/\ Cardinality(InProgress') <= 1
       /\ \A a \in InProgress : InProgress' \subseteq {a}
       /\ \A a \in Actions :
            (pc[a] \notin {"idle", "done"} /\ proc' = "running")
               => pc'[a] # "idle"]_vars

\* The upload handler is suspended in its ingest call with records drained
\* and a sample due; every other handler is idle.
C9_Witness ==
    /\ proc = "running"
    /\ pc["upload"] = "ingest"
    /\ Len(measurements) > 0
    /\ SEQUENCE_COUNTER < AppendLimit
    /\ InProgress = {"upload"}

\* C10 as stated (loop survival): the process leaves the loop only by the
\* exit of a successful OTA switch; every other outcome of a tick returns
\* to waiting.
C10_LoopSurvival ==
    [][(proc = "running" /\ proc' \notin {"running", "crashed"})
       => /\ proc' = "exited"
          /\ pc["ota"] = "download"
          /\ "saved" \in Range(log')]_vars

\* The process was killed inside a drain.
CrashedInDrain == proc = "crashed" /\ log = <<"crash", "drain">>

\* C11 (drain crash atomicity): when the process is killed inside
\* get_and_clear_measurements before the commit, the store it restarts with
\* holds exactly the rows it held before the drain began, whichever DELETEs
\* had run: none lost, none duplicated, no partial deletion observable.
C11_DrainCrashAtomicity ==
    [][/\ CrashedInDrain' => table' = pre'
       /\ (CrashedInDrain /\ proc' = "running")
          => /\ table' = pre
             /\ get_and_clear_measurements(table', UploadBatch, {})
                  = get_and_clear_measurements(pre, UploadBatch, {})]_vars

\* Killed in a drain of two rows after one of the two DELETEs had run.
C11_Witness ==
    /\ CrashedInDrain
    /\ Cardinality(pre) = 2
    /\ Cardinality(resp.deleted) = 1
    /\ resp.deleted \subseteq {r.id : r \in pre}
    /\ table = pre

\* The rows of the table before the drain whose measurements the drain
\* returned: the Len(measurements) rows with the smallest ids.
ReturnedRows ==
    {r \in pre : Cardinality({q \in pre : q.id < r.id}) < Len(measurements)}

\* C12 (drain deletes exactly what it returns): whenever the drain of an
\* upload tick returned a batch, the rows removed from the store are exactly
\* the rows whose measurements were returned, for every outcome of the
\* DELETE statements.
C12_DrainDeletesWhatItReturns ==
    pc["upload"] = "ingest" => (pre \ table) = ReturnedRows

\* The measurements the sample tick of the first run can produce.
Samples ==
    {generate_measurement(c, BuildVersion) : c \in 0 .. (MaxSamples - 1)}

\* Measurement m is in the store.
InStore(m) == \E r \in table : r.m = m

\* The backend has acknowledged an ingest call that carried m.
Acknowledged(m) ==
    /\ pc["upload"] = "done"
    /\ resp = [kind |-> "ingest", ok |-> TRUE]
    /\ m \in Range(measurements)

\* C13 (at-least-once delivery): with the upload tick scheduled fairly, no
\* crash and a backend that eventually accepts ingest calls, every
\* measurement in the store is eventually part of an acknowledged ingest.
C13_AtLeastOnce == \A m \in Samples : InStore(m) ~> Acknowledged(m)

\* C14 (reconfigure period): when a heartbeat or shadow-check tick replaces
\* the period of an action at time `now`, the next firing of that action is
\* at now + new_period.
C14_ReconfigurePeriod ==
    [][\A a \in {"sample", "upload", "heartbeat"} :
          (proc = "running" /\ proc' = "running" /\ Period(a)' # Period(a))
             => timers'[a] = now + Period(a)']_vars

\* C15 (identity set exactly once): over every sequence of ticks, restarts
\* and crashes, a crash inside the rewrite of the Config file included,
\* registration is performed at most once and every later start runs with
\* the device_id and auth_token of the run before it.
C15_IdentitySetOnce ==
    [][/\ registrations' <= 1
       /\ (proc \in {"exited", "crashed"} /\ proc' = "running")
          => Identity(config') = Identity(config)]_vars

\* What OtaState::load returns for a state file: the state in it, the
\* default when there is no file, nothing (an error) when it cannot be
\* parsed.
Loaded(file) ==
    CASE file.status = "ok" -> Some(Content(file))
      [] file.status = "absent" -> Some(DefaultOtaState)
      [] OTHER -> None

\* C16 (crash-safe OTA persistence): for a crash at any point of an OTA
\* switch the state file is left loadable, as the complete old state or the
\* complete new one, and the next start loads it.
C16_CrashSafeOtaPersistence ==
    [][/\ (proc = "running" /\ proc' = "crashed" /\ pc["ota"] = "download")
          => /\ Loaded(otaFile') # None
             /\ Loaded(otaFile') \in {Loaded(otaFile), Some(ota_state')}
       /\ (proc = "crashed" /\ boots' = boots + 1 /\ configFile.status = "ok")
          => /\ proc' = "running"
             /\ Some(ota_state') = Loaded(otaFile)]_vars

\* C17 (OTA download failure): when the metadata names another version and
\* the download fails, the in-memory and the persisted OtaState keep the old
\* version and slot, the process keeps running, check_for_update returns to
\* the loop, and the same metadata is an update again at the next check.
C17_OtaDownloadFailure ==
    [][(pc["ota"] = "download" /\ "download_failed" \in Range(log'))
       => /\ ota_state' = ota_state
          /\ otaFile' = otaFile
          /\ firmware' = firmware
          /\ proc' = "running"
          /\ pc' = [pc EXCEPT !["ota"] = "done"]
          /\ \A v \in firmware_metadata : UpdateAvailable(ota_state', v)]_vars

\* A download has failed on a device that had switched to slot B before.
C17_Witness ==
    /\ proc = "running"
    /\ pc["ota"] = "done"
    /\ "download_failed" \in Range(log)
    /\ resp.kind = "metadata"
    /\ resp.version # Some(ota_state.current_version)
    /\ ota_state.active_slot = "B"
    /\ otaFile = OkFile(ota_state)

\* The select loop is waiting: the process runs and no handler is started.
LoopWaiting == proc = "running" /\ \A a \in Actions : pc[a] = "idle"

\* C18 (OTA failure exits): every OTA check that does not end in process
\* termination leaves the in-memory OtaState as it was before the check,
\* and wherever the loop is waiting the in-memory OtaState equals the
\* persisted one (the default when there is no state file).
C18_OtaFailureExits ==
    [][/\ (pc["ota"] \in {"metadata", "download"} /\ proc' = "running")
          => ota_state' = ota_state
       /\ LoopWaiting' => Some(ota_state') = Loaded(otaFile')]_vars

\* A step of the sample, upload, heartbeat or shadow-check handler.
OtherTickStep == \E a \in Actions \ {"ota"} : pc'[a] # pc[a]

\* C19 (OtaState frame and slot invariant): no sample, upload, heartbeat or
\* shadow-check tick changes OtaState, whatever desired_version a heartbeat
\* response carries; from the default state active_slot is always A or B,
\* and every change of OtaState flips it.
C19_OtaStateFrameAndSlot ==
    [][/\ OtherTickStep => ota_state' = ota_state
       /\ ota_state'.active_slot \in {"A", "B"}
       /\ ota_state' # ota_state
          => /\ pc["ota"] = "download"
             /\ ota_state'.active_slot # ota_state.active_slot]_vars

\* A heartbeat response names another version on a device that runs from
\* slot B after a switch.
C19_Witness ==
    /\ proc = "running"
    /\ pc["heartbeat"] = "done"
    /\ resp.kind = "heartbeat" /\ resp.ok
    /\ resp.desired_version \notin {None, Some(ota_state.current_version)}
    /\ ota_state = [current_version |-> "0.2.0", active_slot |-> "B"]

\* C20 (chaos flags are not sticky): after every successful shadow fetch
\* the active chaos configuration is desired.chaos_flags when the response
\* carries it and is empty when it carries none, also when the response
\* has no desired document at all.
C20_ChaosNotSticky ==
    /\ HasDesired =>
         config.chaos_flags = ChaosFromDesired(DesiredOfTick)
    /\ (pc["shadow"] = "done" /\ "no_desired" \in Range(log))
         => \A c \in config.chaos_flags : c = {}

\* The three live periods of the scheduler, main.rs:74-76.
LivePeriods ==
    [sample |-> sample_interval_secs, upload |-> upload_interval_secs,
     heartbeat |-> heartbeat_interval_secs]

\* The interval fields of a Config, config.rs:11-13.
ConfigPeriods(conf) ==
    [sample |-> conf.sample_interval_secs,
     upload |-> conf.upload_interval_secs,
     heartbeat |-> conf.heartbeat_interval_secs]

\* C21 (interval persistence): after every heartbeat or shadow-check tick
\* that changes a live period the persisted Config's interval fields equal
\* the live periods, so a restart starts the scheduler with the periods
\* that were live before it.
C21_IntervalPersistence ==
    [][/\ (proc = "running" /\ proc' = "running"
           /\ LivePeriods' # LivePeriods)
          => /\ configFile'.status = "ok"
             /\ ConfigPeriods(Content(configFile')) = LivePeriods'
       /\ (proc = "exited" /\ proc' = "running")
          => LivePeriods' = LivePeriods]_vars

\* The numeric interval values a response carries, per live period: the
\* three fields of a DesiredState, the u64 entries of a desired document.
Carried(r) ==
    CASE r.kind = "heartbeat" /\ r.ok ->
           [sample |-> Some(r.desired_sample_interval_secs),
            upload |-> Some(r.desired_upload_interval_secs),
            heartbeat |-> Some(r.desired_heartbeat_interval_secs)]
      [] r.kind = "shadow" /\ r.desired # None ->
           LET d == CHOOSE x \in r.desired : TRUE
           IN  [sample |-> d.sample_interval_secs,
                upload |-> d.upload_interval_secs,
                heartbeat |-> d.heartbeat_interval_secs]
      [] OTHER -> [sample |-> None, upload |-> None, heartbeat |-> None]

\* The step that receives a heartbeat response or a desired document.
ReceivesResponse == pc["heartbeat"] = "sent" \/ pc["shadow"] = "fetch"

\* C22 (last writer wins): a heartbeat response or a desired document sets
\* each live period to the numeric value it carries for it, a heartbeat
\* response all three in the tick that receives it; a period for which
\* nothing is carried, and every other step of the running agent, keeps the
\* value of the most recent response that carried one.
C22_LastWriterWins ==
    [][(proc = "running" /\ proc' = "running")
       => \A k \in {"sample", "upload", "heartbeat"} :
            LivePeriods'[k] =
              IF ReceivesResponse /\ Carried(resp')[k] # None
              THEN CHOOSE n \in Carried(resp')[k] : TRUE
              ELSE LivePeriods[k]]_vars

\* A heartbeat response has put the sample period back to 10 s after an
\* earlier response had made it 60 s, and has changed another period in
\* the same tick.
C22_Witness ==
    /\ proc = "running"
    /\ pc["heartbeat"] = "done"
    /\ resp.kind = "heartbeat" /\ resp.ok
    /\ resp.desired_sample_interval_secs = DefaultSampleSecs
    /\ "reset:sample" \in Range(log)
    /\ "reset:heartbeat" \in Range(log)
    /\ LivePeriods = [sample |-> 10, upload |-> 60, heartbeat |-> 60]

\* The interval values of a heartbeat request body.
ReportedPeriods(body) ==
    [sample |-> body.reported_sample_interval_secs,
     upload |-> body.reported_upload_interval_secs,
     heartbeat |-> body.reported_heartbeat_interval_secs]

\* C23 (heartbeat reports pre-update values): the interval values of every
\* heartbeat request are the live periods at the moment it is sent, and
\* they are the values the response of that heartbeat is then applied to.
C23_HeartbeatReportsPreUpdate ==
    [][/\ (pc["heartbeat"] = "idle" /\ pc'["heartbeat"] = "sent"
           /\ config.auth_token # None)
          => /\ req'.kind = "heartbeat"
             /\ ReportedPeriods(req') = LivePeriods
             /\ LivePeriods' = LivePeriods
       /\ (pc["heartbeat"] = "sent" /\ req # NoReq)
          => ReportedPeriods(req) = LivePeriods]_vars

\* A heartbeat is in flight that reports periods an earlier response had
\* changed.
C23_Witness ==
    /\ proc = "running"
    /\ pc["heartbeat"] = "sent"
    /\ req.kind = "heartbeat"
    /\ ReportedPeriods(req) = [sample |-> 60, upload |-> 60, heartbeat |-> 60]
    /\ ConfigPeriods(config) # LivePeriods

\* C24 (reported document mirrors live configuration): at the end of every
\* shadow-check tick that received a desired document the interval entries
\* of the reported document are the live periods and reported.chaos_flags
\* is the active chaos configuration, the empty document when none is
\* active, whether or not the tick changed anything.
C24_ReportedMirrorsLive ==
    (HasDesired /\ proc = "running")
    => /\ current_reported_state.sample_interval_secs
            = Some(sample_interval_secs)
       /\ current_reported_state.upload_interval_secs
            = Some(upload_interval_secs)
       /\ current_reported_state.heartbeat_interval_secs
            = Some(heartbeat_interval_secs)
       /\ current_reported_state.chaos_flags
            = (IF config.chaos_flags = None THEN Some({})
               ELSE config.chaos_flags)

\* A tick that changed nothing has ended with a reported document that
\* shows a period no desired document of this tick carried and no chaos.
C24_Witness ==
    /\ HasDesired /\ proc = "running"
    /\ pc["shadow"] = "done"
    /\ "chaos_same" \in Range(log)
    /\ "reset:sample" \notin Range(log)
    /\ DesiredOfTick.sample_interval_secs = None
    /\ current_reported_state.sample_interval_secs = Some(60)
    /\ config.chaos_flags = None
    /\ current_reported_state.chaos_flags = Some({})

\* Position of the first occurrence of `e` in `seq`, 0 when there is none.
IndexOf(seq, e) ==
    IF e \in Range(seq) THEN CHOOSE i \in DOMAIN seq :
                                  seq[i] = e /\ \A j \in 1 .. (i - 1) : seq[j] # e
    ELSE 0

\* The steps a shadow-check tick logs, in the order the claim gives them.
ShadowStepOrder(l) ==
    LET chaos == Max({IndexOf(l, "chaos_same"), IndexOf(l, "chaos_changed")})
        resets == {i \in DOMAIN l :
                     l[i] \in {"reset:sample", "reset:upload",
                               "reset:heartbeat"}}
        saves == {i \in DOMAIN l :
                    l[i] \in {"save:ok", "save:error", "save:torn"}}
    IN  /\ chaos > 0
        /\ \A i \in resets : chaos < i /\ i < IndexOf(l, "reported")
        /\ chaos < IndexOf(l, "reported")
        /\ \A i \in saves : IndexOf(l, "reported") < i
                            /\ i < IndexOf(l, "req:patch_shadow")
        /\ saves # {}

\* C25 (shadow tick ordering): a shadow-check tick that received a desired
\* document runs chaos update, interval updates, reported refresh, Config
\* persist and shadow-update push in this order, and the reported document
\* it pushes is the one the persisted Config holds at the time of the push.
C25_ShadowTickOrdering ==
    (pc["shadow"] = "report")
    => /\ ShadowStepOrder(log)
       /\ req.kind = "patch_shadow"
       /\ configFile.status = "ok"
       /\ Content(configFile).reported_shadow_state = Some(req.state)

\* The log entries that stand for a request put on the wire.
Requests ==
    {"req:heartbeat", "req:ingest", "req:metadata", "req:download",
     "req:get_shadow", "req:patch_shadow"}

\* The log entries of a call that returned Err.
CallFailures ==
    {"failed", "reinserted", "reinsert_failed", "metadata_failed",
     "fetch_failed"}

\* The agent runs without a stored credential.
NoToken == proc = "running" /\ config.auth_token = None

\* C26 (missing credential fails fast): without an auth_token no tick sends
\* a request and no authenticated call succeeds; the tick leaves the live
\* periods, the chaos configuration and OtaState unchanged, and an upload
\* tick ends with the multiset of measurements it found.
C26_MissingCredentialFailsFast ==
    [][NoToken
       => /\ Range(log') \cap Requests = {}
          /\ req' = NoReq
          /\ (\E a \in Actions : pc[a] \notin {"idle", "done"})
             => log'[Len(log')] \in CallFailures
          /\ LivePeriods' = LivePeriods
          /\ config'.chaos_flags = config.chaos_flags
          /\ ota_state' = ota_state
          /\ (pc["upload"] = "ingest" /\ pc'["upload"] = "done")
             => MeasurementBag(table') = MeasurementBag(pre)]_vars

\* The timers whose period has elapsed.
ReadySet == {a \in Actions : Due(a)}

\* The branch of the select! for timer `a`.
Branch(a) ==
    CASE a = "heartbeat" -> TimedHeartbeat
      [] a = "shadow" -> TimedShadow
      [] OTHER -> TimedTickOf(a)

\* C27 (deterministic tie-break): when two or more periods have elapsed at
\* the same instant the action that runs next is a function of the set of
\* ready triggers: from one state only one branch can be taken.
C27_DeterministicTieBreak ==
    Cardinality(ReadySet) >= 2
    => Cardinality({a \in Actions : ENABLED Branch(a)}) = 1

\* C28 (live periods stay valid): in every reachable state each live period
\* is a strictly positive number of seconds, whatever interval value a
\* heartbeat response or a desired document carries, so no timer is created
\* with a zero period.
C28_LivePeriodsStayValid ==
    /\ \A k \in {"sample", "upload", "heartbeat"} : LivePeriods[k] > 0
    /\ proc # "panicked"

\* ------------------------------------------- runs without storage failure
\* The log entries of a failed SQLite statement.
StorageFailures ==
    {"store_failed", "drain_failed", "delete_failed", "reinsert_failed"}

\* The ticks that touch the queue, with every statement succeeding.
SampleStored == SampleTick /\ Range(log') \cap StorageFailures = {}
UploadDrained == UploadTick /\ Range(log') \cap StorageFailures = {}
IngestFailsReinserted == IngestFails /\ Range(log') \cap StorageFailures = {}

NextStored ==
    \/ BootLoad
    \/ BootRegister
    \/ BootRegisterFails
    \/ SampleStored
    \/ UploadChaosSkip
    \/ UploadDrained
    \/ IngestOk
    \/ IngestFailsReinserted
    \/ HeartbeatChaosSkip
    \/ HeartbeatTick
    \/ HeartbeatFails
    \/ HeartbeatResponse
    \/ OtaTick
    \/ OtaMetadataFails
    \/ OtaNoContent
    \/ OtaMetadata
    \/ OtaDownloadFails
    \/ OtaDownloaded
    \/ ShadowTick
    \/ ShadowFetchFails
    \/ ShadowNoDesired
    \/ ShadowDesired
    \/ ShadowReported
    \/ Continue

SpecStored == InitQueue /\ [][NextStored]_vars

\* Rows of `tbl` that hold measurement `m`.
Copies(tbl, m) == Cardinality({r \in tbl : r.m = m})

\* C29 (measurement conservation): without a crash and without a storage
\* failure a sample tick adds its measurement once, a drain moves rows from
\* the queue into the batch, the batch is either acknowledged by a
\* successful ingest call or put back whole, every other step (a skipped
\* upload, an upload on an empty queue included) leaves the queue alone,
\* and no measurement is in the queue twice while the loop is waiting.
C29_MeasurementConservation ==
    [][/\ (pc["sample"] = "idle" /\ pc'["sample"] = "done")
          => LET m == generate_measurement(SEQUENCE_COUNTER,
                                           ota_state.current_version)
             IN  /\ Copies(table, m) = 0
                 /\ Copies(table', m) = 1
                 /\ \A r \in table : Copies(table', r.m) = Copies(table, r.m)
       /\ (pc["upload"] = "idle" /\ pc'["upload"] = "ingest")
          => /\ table' \subseteq table
             /\ \A r \in table :
                  Copies(table', r.m)
                  + Cardinality({i \in DOMAIN measurements' :
                                   measurements'[i] = r.m}) = 1
       /\ (pc["upload"] = "ingest" /\ pc'["upload"] = "done")
          => IF resp'.ok
             THEN /\ table' = table
                  /\ measurements' = measurements
             ELSE MeasurementBag(table') = MeasurementBag(pre)
       /\ (proc = "running" /\ pc'["sample"] = pc["sample"]
           /\ pc["upload"] \notin {"idle", "ingest"})
          => table' = table
       /\ (pc["upload"] = "idle" /\ pc'["upload"] = "done")
          => table' = table
       /\ LoopWaiting' => \A r \in table' : Copies(table', r.m) = 1]_vars

\* An upload tick has put back its batch after the measurement sampled
\* before it had been acknowledged: the later one is in the queue once, in
\* a new row, and the acknowledged one is not.
C29_Witness ==
    /\ pc["upload"] = "done"
    /\ resp = [kind |-> "ingest", ok |-> FALSE]
    /\ SEQUENCE_COUNTER = 2
    /\ table \cap pre = {}
    /\ {r.m.sequence_number : r \in pre} = {1}
    /\ {r.m.sequence_number : r \in table} = {1}
    /\ \A r \in table : Copies(table, r.m) = 1

====
